---- MODULE Spec2Model ----
(***************************************************************************)
(* A model of the supportmatch server: the matching run                    *)
(* (createMonthlyMatches), the partnership, exclusion and user tables it   *)
(* reads and writes, the invite ledger with the two registration paths    *)
(* that consume it, and the reports with the administrators' update        *)
(* requests.  Every await of a handler is one action: the                  *)
(* database query the await waits for is the atomic step, the local        *)
(* computation that follows it belongs to the same action.                 *)
(***************************************************************************)
EXTENDS Bags, FiniteSets, Integers, Sequences, TLC

(* ------------------------------ bounds -------------------------------- *)
NUsers == 4
MaxRuns == 2
MaxEdits == 1
MaxExclusions == 2
MaxUpdates == 2
MaxReports == 2
MaxReportOps == 2
NRegs == 2
MaxIssues == 2
MaxTime == 2
MaxRetriesInput == 3

Users == 1..NUsers
\* the request workers a matching run can occupy
Runs == {"r1", "r2"}
\* the one worker of a deployment that runs the matching cycle single-flight
SeqRuns == {"r1"}
\* the registration attempts
Regs == 1..NRegs
\* the request worker a report update occupies
AdminReqs == {"q1"}
\* the instants of the clock
Times == 0..MaxTime

(* ----------------------------- constants ------------------------------ *)
NULL == "null"
\* no row under a key, and no value in a timestamp column
NoRow == [exists |-> FALSE]
Never == -1
Genders == {"male", "female", "non-binary", "prefer_not_to_say"}
PartnershipStatuses == {"active", "completed", "ended_early", "cancelled"}
ReportStatuses == {"pending", "investigating", "resolved", "dismissed"}
\* the values a profile edit is tried with: a specific category the initial
\* population has, one it has not, the flexible category and no value
GenderInputs == {"male", "female", "prefer_not_to_say", NULL}
\* the stored gender values of the initial population
InitGenders == {"male", NULL}
\* the code strings requests carry
Codes == {"A", "B"}
\* the e-mail addresses (local accounts) and subject ids (OIDC accounts)
Idents == {"a", "b"}
\* the maxUses and expiresAt values an invite code is issued with
MaxUsesInputs == {0, 1, 2}
ExpiresInputs == {Never, 1}

VARIABLES
    users,          \* users table: id -> [gender, isActive, isAdmin]
    partnerships,   \* partnerships table, in insertion order
    exclusions,     \* exclusions table, in insertion order
    exreq,          \* POST /api/exclusions requests between check and insert (a bag)
    run,            \* the createMonthlyMatches invocations
    nRuns,          \* invocations started so far
    nEdits,         \* user-record edits so far
    nUpdates,       \* partnership updates so far
    inviteCodes,    \* invite_codes table: code -> row, or NoRow
    issue,          \* POST /api/admin/invite-codes requests between check and insert
    accounts,       \* the user rows registrations have created
    reg,            \* the registration attempts
    now,            \* the clock
    reports,        \* reports table, in insertion order
    adm,            \* the PUT /api/admin/reports/:id requests
    nReportOps,     \* report update requests so far
    exdel,          \* the last exclusion a DELETE /api/exclusions/:id removed
    isConnectionValidated,  \* db.ts: the module's flag
    vc,             \* the validateConnection call
    wr              \* the withRetry call

mvars == <<users, partnerships, exclusions, exreq, run, nRuns, nEdits, nUpdates>>
ivars == <<inviteCodes, issue, accounts, reg, now>>
rvars == <<reports, adm, nReportOps>>
xvars == <<exdel>>
dvars == <<isConnectionValidated, vc, wr>>
vars == <<mvars, ivars, rvars, xvars, dvars>>

(* ------------------------- storage operations ------------------------- *)
RECURSIVE SeqOfSet(_)
\* the rows of a table in id order
SeqOfSet(S) ==
    IF S = {} THEN <<>>
    ELSE LET m == CHOOSE x \in S : \A y \in S : x <= y
         IN <<m>> \o SeqOfSet(S \ {m})

Range(s) == {s[i] : i \in 1..Len(s)}

getAllUsers == SeqOfSet(Users)

\* an availability test that finds nobody partnered
NobodyPartnered(userId) == TRUE

\* an availability test that passes over the partnerships whose endDate has
\* passed
NoUnexpiredPartnership(userId) ==
    ~ \E i \in 1..Len(partnerships) :
        /\ partnerships[i].status = "active"
        /\ partnerships[i].endDate >= now
        /\ (partnerships[i].user1Id = userId \/ partnerships[i].user2Id = userId)

\* storage.getActivePartnershipForUser(userId) is undefined
NoActivePartnership(userId) ==
    ~ \E i \in 1..Len(partnerships) :
        /\ partnerships[i].status = "active"
        /\ (partnerships[i].user1Id = userId \/ partnerships[i].user2Id = userId)

isUserExcluded(userId, potentialPartnerId) ==
    \E i \in 1..Len(exclusions) :
        /\ exclusions[i].userId = userId
        /\ exclusions[i].excludedUserId = potentialPartnerId

\* endDate.setMonth(endDate.getMonth() + 1), in the unit of the clock
Month == 1

\* the row storage.createPartnership inserts; run, gender1, gender2,
\* excludedAtInsert and busyAtInsert are history fields: the number of the
\* creating invocation, the genders it read for the two users, whether an
\* exclusion row named the pair when the row was inserted, and whether one of
\* the two users was in an active partnership then
createPartnership(r, user1Id, user2Id) ==
    [user1Id |-> user1Id, user2Id |-> user2Id, status |-> "active",
     endDate |-> run[r].currentDate + Month,
     run |-> run[r].n,
     gender1 |-> run[r].snap[user1Id], gender2 |-> run[r].snap[user2Id],
     excludedAtInsert |-> isUserExcluded(user1Id, user2Id)
                          \/ isUserExcluded(user2Id, user1Id),
     busyAtInsert |-> \E j \in 1..Len(partnerships) :
                        /\ partnerships[j].status = "active"
                        /\ {partnerships[j].user1Id, partnerships[j].user2Id}
                             \cap {user1Id, user2Id} # {}]

(* --------------------------- the matching run ------------------------- *)
\* the key a user is grouped under
BucketKey(gender) == IF gender = NULL THEN "prefer_not_to_say" ELSE gender

RECURSIVE KeyOrder(_, _, _)
\* Object.entries(usersByGender): the keys in the order they were first added
KeyOrder(avail, snap, seen) ==
    IF avail = <<>> THEN <<>>
    ELSE LET k == BucketKey(snap[Head(avail)])
         IN IF k \in seen THEN KeyOrder(Tail(avail), snap, seen)
            ELSE <<k>> \o KeyOrder(Tail(avail), snap, seen \cup {k})

SelectByKey(avail, snap, k) ==
    LET Pick(acc, i) == IF BucketKey(snap[avail[i]]) = k THEN Append(acc, avail[i]) ELSE acc
        F[i \in 0..Len(avail)] == IF i = 0 THEN <<>> ELSE Pick(F[i - 1], i)
    IN F[Len(avail)]

\* a grouping that puts every available user into one bucket
usersInOneBucket(avail, snap) == <<avail>>

\* usersByGender as the list of its buckets, each the list of its users
usersByGender(avail, snap) ==
    LET keys == KeyOrder(avail, snap, {})
    IN [b \in 1..Len(keys) |-> SelectByKey(avail, snap, keys[b])]

\* [...users].sort(() => Math.random() - 0.5): some permutation of the list
Shuffles(list) ==
    {p \in [1..Len(list) -> Range(list)] : \A i, j \in 1..Len(list) : i # j => p[i] # p[j]}

IdleRun ==
    [pc |-> "idle", n |-> 0, snap |-> <<>>, active |-> <<>>, avail |-> <<>>,
     buckets |-> <<>>, b |-> 0, shuffled |-> <<>>, i |-> 0, isExcluded1 |-> FALSE,
     currentDate |-> 0, rejected |-> {}]

\* a pair loop that leaves the bucket after its first pair
AfterPairNextBucket(rec) ==
    [rec EXCEPT !.i = 0, !.b = rec.b + 1, !.shuffled = <<>>, !.pc = "shuffle",
                !.isExcluded1 = FALSE]

\* a pair loop that steps by one user instead of two
AfterPairSliding(rec) ==
    IF rec.i + 2 <= Len(rec.shuffled)
    THEN [rec EXCEPT !.i = rec.i + 1, !.pc = "excl1", !.isExcluded1 = FALSE]
    ELSE [rec EXCEPT !.i = 0, !.b = rec.b + 1, !.shuffled = <<>>, !.pc = "shuffle",
                     !.isExcluded1 = FALSE]

\* where the pair loop stands after the pair at i: the next pair of the
\* bucket, or the next bucket
AfterPair(rec) ==
    IF rec.i + 3 <= Len(rec.shuffled)
    THEN [rec EXCEPT !.i = rec.i + 2, !.pc = "excl1", !.isExcluded1 = FALSE]
    ELSE [rec EXCEPT !.i = 0, !.b = rec.b + 1, !.shuffled = <<>>, !.pc = "shuffle",
                     !.isExcluded1 = FALSE]

\* storage.getAllUsers() and the isActive filter
RunStart(r) ==
    /\ run[r].pc = "idle"
    /\ nRuns < MaxRuns
    /\ nRuns' = nRuns + 1
    /\ LET active == SelectSeq(getAllUsers, LAMBDA u : users[u].isActive)
       IN run' = [run EXCEPT ![r] =
            [IdleRun EXCEPT !.pc = IF active = <<>> THEN "done" ELSE "avail",
                            !.n = nRuns + 1,
                            !.snap = [u \in Users |-> users[u].gender],
                            !.currentDate = now,
                            !.active = active, !.i = 1]]
    /\ UNCHANGED <<xvars, dvars, ivars, rvars, users, partnerships, exclusions, exreq, nEdits, nUpdates>>

\* one storage.getActivePartnershipForUser(user.id) of the availability loop;
\* after the last one the users are grouped
RunAvail(r) ==
    /\ run[r].pc = "avail"
    /\ LET rec == run[r]
           u == rec.active[rec.i]
           avail == IF NoActivePartnership(u) THEN Append(rec.avail, u) ELSE rec.avail
       IN run' = [run EXCEPT ![r] =
            IF rec.i < Len(rec.active)
            THEN [rec EXCEPT !.avail = avail, !.i = rec.i + 1]
            ELSE [rec EXCEPT !.avail = avail, !.i = 0, !.b = 1, !.pc = "shuffle",
                             !.buckets = usersByGender(avail, rec.snap)]]
    /\ UNCHANGED <<xvars, dvars, ivars, rvars, users, partnerships, exclusions, exreq, nRuns, nEdits, nUpdates>>

\* the head of the bucket loop: shuffle the next bucket, or return
RunShuffle(r) ==
    /\ run[r].pc = "shuffle"
    /\ LET rec == run[r]
       IN IF rec.b > Len(rec.buckets)
          THEN run' = [run EXCEPT ![r] = [rec EXCEPT !.pc = "done"]]
          ELSE \E s \in Shuffles(rec.buckets[rec.b]) :
                 run' = [run EXCEPT ![r] =
                    IF Len(s) >= 2
                    THEN [rec EXCEPT !.shuffled = s, !.i = 1, !.pc = "excl1"]
                    ELSE [rec EXCEPT !.b = rec.b + 1, !.pc = "shuffle"]]
    /\ UNCHANGED <<xvars, dvars, ivars, rvars, users, partnerships, exclusions, exreq, nRuns, nEdits, nUpdates>>

\* storage.isUserExcluded(user1.id, user2.id)
RunExcl1(r) ==
    /\ run[r].pc = "excl1"
    /\ LET rec == run[r]
       IN run' = [run EXCEPT ![r] =
            [rec EXCEPT !.isExcluded1 = isUserExcluded(rec.shuffled[rec.i], rec.shuffled[rec.i + 1]),
                        !.pc = "excl2"]]
    /\ UNCHANGED <<xvars, dvars, ivars, rvars, users, partnerships, exclusions, exreq, nRuns, nEdits, nUpdates>>

\* storage.isUserExcluded(user2.id, user1.id) and the test of the two answers;
\* rejected is a history field, the users of the pairs the invocation has
\* rejected
RunExcl2(r) ==
    /\ run[r].pc = "excl2"
    /\ LET rec == run[r]
           isExcluded2 == isUserExcluded(rec.shuffled[rec.i + 1], rec.shuffled[rec.i])
       IN run' = [run EXCEPT ![r] =
            IF ~rec.isExcluded1 /\ ~isExcluded2
            THEN [rec EXCEPT !.pc = "create"]
            ELSE AfterPair([rec EXCEPT !.rejected =
                    @ \cup {rec.shuffled[rec.i], rec.shuffled[rec.i + 1]}])]
    /\ UNCHANGED <<xvars, dvars, ivars, rvars, users, partnerships, exclusions, exreq, nRuns, nEdits, nUpdates>>

\* an insert that also closes the partnerships the table already holds
RunCreateClosing(r) ==
    /\ run[r].pc = "create"
    /\ LET rec == run[r]
           closed == [j \in 1..Len(partnerships) |->
                        [partnerships[j] EXCEPT !.status = "completed"]]
       IN /\ partnerships' = Append(closed,
                createPartnership(r, rec.shuffled[rec.i], rec.shuffled[rec.i + 1]))
          /\ run' = [run EXCEPT ![r] = AfterPair(rec)]
    /\ UNCHANGED <<xvars, dvars, ivars, rvars, users, exclusions, exreq, nRuns, nEdits, nUpdates>>

\* storage.createPartnership(user1.id, user2.id, currentDate, endDate)
RunCreate(r) ==
    /\ run[r].pc = "create"
    /\ LET rec == run[r]
       IN /\ partnerships' = Append(partnerships,
                createPartnership(r, rec.shuffled[rec.i], rec.shuffled[rec.i + 1]))
          /\ run' = [run EXCEPT ![r] = AfterPair(rec)]
    /\ UNCHANGED <<xvars, dvars, ivars, rvars, users, exclusions, exreq, nRuns, nEdits, nUpdates>>

\* storage.createPartnership rejects: the exception leaves the two loops and
\* createMonthlyMatches, the handler's catch answers 500 and the invocation
\* is over
RunCreateThrows(r) ==
    /\ run[r].pc = "create"
    /\ run' = [run EXCEPT ![r] = IdleRun]
    /\ UNCHANGED <<xvars, dvars, ivars, rvars, users, partnerships, exclusions, exreq, nRuns, nEdits, nUpdates>>

\* the response of POST /api/admin/create-matches: the invocation is over
RunReturn(r) ==
    /\ run[r].pc = "done"
    /\ run' = [run EXCEPT ![r] = IdleRun]
    /\ UNCHANGED <<xvars, dvars, ivars, rvars, users, partnerships, exclusions, exreq, nRuns, nEdits, nUpdates>>

(* ------------------------ the other requests -------------------------- *)
\* PUT /api/users/me: the user sets the gender of the own record
UpdateGender(u, g) ==
    /\ nEdits < MaxEdits
    /\ users[u].gender # g
    /\ users' = [users EXCEPT ![u].gender = g]
    /\ nEdits' = nEdits + 1
    /\ UNCHANGED <<xvars, dvars, ivars, rvars, partnerships, exclusions, exreq, run, nRuns, nUpdates>>

\* storage.updateUser({isActive}) by the account subsystem
SetActive(u, a) ==
    /\ nEdits < MaxEdits
    /\ users[u].isActive # a
    /\ users' = [users EXCEPT ![u].isActive = a]
    /\ nEdits' = nEdits + 1
    /\ UNCHANGED <<xvars, dvars, ivars, rvars, partnerships, exclusions, exreq, run, nRuns, nUpdates>>

\* POST /api/exclusions, up to the answer of storage.isUserExcluded
ExclusionCheck(u, x) ==
    /\ Len(exclusions) + BagCardinality(exreq) < MaxExclusions
    /\ u # x
    /\ ~isUserExcluded(u, x)
    /\ exreq' = exreq (+) SetToBag({<<u, x>>})
    /\ UNCHANGED <<xvars, dvars, ivars, rvars, users, partnerships, exclusions, run, nRuns, nEdits, nUpdates>>

\* POST /api/exclusions: storage.createExclusion
ExclusionInsert(u, x) ==
    /\ BagIn(<<u, x>>, exreq)
    /\ exreq' = exreq (-) SetToBag({<<u, x>>})
    /\ exclusions' = Append(exclusions, [userId |-> u, excludedUserId |-> x])
    /\ UNCHANGED <<xvars, dvars, ivars, rvars, users, partnerships, run, nRuns, nEdits, nUpdates>>

\* storage.removeExclusion(id): the table without the row of that id
removeExclusion(id) ==
    [j \in 1..(Len(exclusions) - 1) |->
        IF j < id THEN exclusions[j] ELSE exclusions[j + 1]]

\* DELETE /api/exclusions/:id sent by user u; exdel is a history variable,
\* the sender of the last such request and the owner of the row it removed
DeleteExclusion(u, id) ==
    /\ id \in 1..Len(exclusions)
    /\ exclusions' = removeExclusion(id)
    /\ exdel' = [exists |-> TRUE, by |-> u, owner |-> exclusions[id].userId]
    /\ UNCHANGED <<dvars, ivars, rvars, users, partnerships, exreq, run, nRuns, nEdits, nUpdates>>

\* PUT /api/partnerships/:id with a status in the body
UpdatePartnership(id, status) ==
    /\ nUpdates < MaxUpdates
    /\ id \in 1..Len(partnerships)
    /\ partnerships[id].status # status
    /\ partnerships' = [partnerships EXCEPT ![id].status = status]
    /\ nUpdates' = nUpdates + 1
    /\ UNCHANGED <<xvars, dvars, ivars, rvars, users, exclusions, exreq, run, nRuns, nEdits>>

(* --------------------------- the invite ledger ------------------------ *)
\* storage.verifyInvite(code): the reason of the refusal, or "valid"
verifyInvite(code) ==
    LET inviteCode == inviteCodes[code]
    IN IF inviteCode = NoRow THEN "Invalid invite code"
       ELSE IF ~inviteCode.isActive THEN "Invite code has been deactivated"
       ELSE IF inviteCode.expiresAt # Never /\ now > inviteCode.expiresAt
            THEN "Invite code has expired"
       ELSE IF inviteCode.currentUses >= inviteCode.maxUses
            THEN "Invite code has reached maximum uses"
       ELSE "valid"

\* the row storage.createInviteCode inserts
createInviteCode(maxUses, expiresAt) ==
    [isActive |-> TRUE, maxUses |-> maxUses, currentUses |-> 0,
     expiresAt |-> expiresAt, usedBy |-> NULL, usedAt |-> Never]

\* the row the update of storage.markInviteCodeAsUsed leaves, from the
\* currentUses and maxUses its getInviteCode read
markInviteCodeAsUsed(inviteCode, read, usedBy) ==
    [inviteCode EXCEPT !.usedBy = usedBy,
                       !.currentUses = read.currentUses + 1,
                       !.usedAt = now,
                       !.isActive = (read.currentUses + 1 < read.maxUses)]

\* POST /api/admin/invite-codes, up to the answer of storage.getInviteCode
IssueCheck(code, maxUses, expiresAt) ==
    /\ Cardinality({c \in Codes : inviteCodes[c] # NoRow}) + Cardinality(issue) < MaxIssues
    /\ inviteCodes[code] = NoRow
    /\ issue' = issue \cup {[code |-> code, maxUses |-> maxUses, expiresAt |-> expiresAt]}
    /\ UNCHANGED <<xvars, dvars, mvars, rvars, inviteCodes, accounts, reg, now>>

\* POST /api/admin/invite-codes: storage.createInviteCode; the unique
\* constraint on code refuses a second row
IssueInsert(q) ==
    /\ q \in issue
    /\ issue' = issue \ {q}
    /\ inviteCodes' = IF inviteCodes[q.code] = NoRow
                      THEN [inviteCodes EXCEPT ![q.code] = createInviteCode(q.maxUses, q.expiresAt)]
                      ELSE inviteCodes
    /\ UNCHANGED <<xvars, dvars, mvars, rvars, accounts, reg, now>>

\* POST /api/admin/invite-codes over the in-memory storage:
\* MemStorage.createInviteCode, this.inviteCodes.set(code, inviteCode)
IssueInsertMem(q) ==
    /\ q \in issue
    /\ issue' = issue \ {q}
    /\ inviteCodes' = [inviteCodes EXCEPT ![q.code] = createInviteCode(q.maxUses, q.expiresAt)]
    /\ UNCHANGED <<xvars, dvars, mvars, rvars, accounts, reg, now>>

\* DELETE /api/admin/invite-codes/:code: storage.deactivateInviteCode
Deactivate(code) ==
    /\ inviteCodes[code] # NoRow
    /\ inviteCodes[code].isActive
    /\ inviteCodes' = [inviteCodes EXCEPT ![code].isActive = FALSE]
    /\ UNCHANGED <<xvars, dvars, mvars, rvars, issue, accounts, reg, now>>

Tick ==
    /\ now < MaxTime
    /\ now' = now + 1
    /\ UNCHANGED <<xvars, dvars, mvars, rvars, inviteCodes, issue, accounts, reg>>

IdleReg ==
    [pc |-> "idle", kind |-> NULL, ident |-> NULL, code |-> NULL, read |-> NoRow,
     outcome |-> NULL]

HasAccount(kind, ident) == \E a \in accounts : a.kind = kind /\ a.ident = ident

Finish(rec, outcome) == [rec EXCEPT !.pc = "done", !.outcome = outcome, !.read = NoRow]

\* POST /api/auth/register up to the answer of storage.findUserByEmail
\* (kind "local"), upsertUser up to the answer of storage.getUser (kind "oidc")
RegLookup(r, kind, ident, code) ==
    /\ reg[r].pc = "idle"
    /\ LET rec == [reg[r] EXCEPT !.kind = kind, !.ident = ident, !.code = code]
       IN reg' = [reg EXCEPT ![r] =
            IF HasAccount(kind, ident)
            THEN Finish(rec, IF kind = "local" THEN "exists" ELSE "login")
            ELSE [rec EXCEPT !.pc = "verify"]]
    /\ UNCHANGED <<xvars, dvars, mvars, rvars, inviteCodes, issue, accounts, now>>

\* storage.verifyInvite(inviteCode)
RegVerify(r) ==
    /\ reg[r].pc = "verify"
    /\ reg' = [reg EXCEPT ![r] =
            IF verifyInvite(reg[r].code) = "valid"
            THEN [reg[r] EXCEPT !.pc = "create"]
            ELSE Finish(reg[r], "refused")]
    /\ UNCHANGED <<xvars, dvars, mvars, rvars, inviteCodes, issue, accounts, now>>

\* storage.createLocalUser (the unique constraint on email refuses a second
\* row) or storage.upsertUser (a row with the id is updated)
RegCreate(r) ==
    /\ reg[r].pc = "create"
    /\ LET rec == reg[r]
       IN IF HasAccount(rec.kind, rec.ident)
          THEN /\ accounts' = accounts
               /\ reg' = [reg EXCEPT ![r] =
                    IF rec.kind = "local" THEN Finish(rec, "failed")
                    ELSE [rec EXCEPT !.pc = "consume"]]
          ELSE /\ accounts' = accounts \cup
                    {[kind |-> rec.kind, ident |-> rec.ident, code |-> rec.code]}
               /\ reg' = [reg EXCEPT ![r] = [rec EXCEPT !.pc = "consume"]]
    /\ UNCHANGED <<xvars, dvars, mvars, rvars, inviteCodes, issue, now>>

\* storage.consumeInvite: the getInviteCode of markInviteCodeAsUsed
RegConsumeRead(r) ==
    /\ reg[r].pc = "consume"
    /\ reg' = [reg EXCEPT ![r] =
            IF inviteCodes[reg[r].code] = NoRow
            THEN Finish(reg[r], "created")
            ELSE [reg[r] EXCEPT !.pc = "update",
                    !.read = [currentUses |-> inviteCodes[reg[r].code].currentUses,
                              maxUses |-> inviteCodes[reg[r].code].maxUses]]]
    /\ UNCHANGED <<xvars, dvars, mvars, rvars, inviteCodes, issue, accounts, now>>

\* storage.consumeInvite: the update of markInviteCodeAsUsed
RegConsumeUpdate(r) ==
    /\ reg[r].pc = "update"
    /\ inviteCodes' = [inviteCodes EXCEPT ![reg[r].code] =
            markInviteCodeAsUsed(inviteCodes[reg[r].code], reg[r].read, reg[r].ident)]
    /\ reg' = [reg EXCEPT ![r] = Finish(reg[r], "created")]
    /\ UNCHANGED <<xvars, dvars, mvars, rvars, issue, accounts, now>>

\* a query of storage.consumeInvite throws: the handler answers 500
RegConsumeThrows(r) ==
    /\ reg[r].pc \in {"consume", "update"}
    /\ reg' = [reg EXCEPT ![r] = Finish(reg[r], "failed")]
    /\ UNCHANGED <<xvars, dvars, mvars, rvars, inviteCodes, issue, accounts, now>>

(* ------------------------------- reports ------------------------------ *)
\* the row storage.createReport inserts
createReport(reporterId, insertReport) ==
    [reporterId |-> reporterId, status |-> "pending"]

\* the bodies POST /api/reports is tried with: the reported user and a
\* status field
ReportBodies == [reportedUserId : Users, status : ReportStatuses]

\* insertReportSchema.parse(req.body): the picked fields
insertReportSchema(body) == [reportedUserId |-> body.reportedUserId]

\* a filing that stores the status field of the body
FileReportAsSent(u, body) ==
    /\ Len(reports) < MaxReports
    /\ reports' = Append(reports, [reporterId |-> u, status |-> body.status])
    /\ UNCHANGED <<xvars, dvars, mvars, ivars, adm, nReportOps>>

\* POST /api/reports
FileReport(u, body) ==
    /\ Len(reports) < MaxReports
    /\ reports' = Append(reports, createReport(u, insertReportSchema(body)))
    /\ UNCHANGED <<xvars, dvars, mvars, ivars, adm, nReportOps>>

\* POST /api/admin/bootstrap for the e-mail address of an existing user:
\* storage.setAdmin(user.id, true)
Bootstrap(u) ==
    /\ ~users[u].isAdmin
    /\ users' = [users EXCEPT ![u].isAdmin = TRUE]
    /\ UNCHANGED <<xvars, dvars, ivars, rvars, partnerships, exclusions, exreq, run, nRuns, nEdits, nUpdates>>

\* a test that lets every caller through
everyoneAdmin(userId) == TRUE

\* requireAdmin: the test of the row storage.getUser(userId) returned
requireAdmin(userId) == users[userId].isAdmin

IdleAdm == [pc |-> "idle", by |-> 0, id |-> 0, status |-> NULL]

\* PUT /api/admin/reports/:id up to the answer of requireAdmin: next(), or
\* the response 403
ReportCheck(q, u, id, status) ==
    /\ adm[q].pc = "idle"
    /\ nReportOps < MaxReportOps
    /\ nReportOps' = nReportOps + 1
    /\ adm' = [adm EXCEPT ![q] =
            [pc |-> IF requireAdmin(u) THEN "next" ELSE "403",
             by |-> u, id |-> id, status |-> status]]
    /\ UNCHANGED <<xvars, dvars, mvars, ivars, reports>>

\* storage.updateReport(req.params.id, req.body): the row with the id, if
\* there is one, takes the status of the body
ReportUpdate(q) ==
    /\ adm[q].pc = "next"
    /\ reports' = IF adm[q].id \in 1..Len(reports)
                  THEN [reports EXCEPT ![adm[q].id].status = adm[q].status]
                  ELSE reports
    /\ adm' = [adm EXCEPT ![q].pc = "200"]
    /\ UNCHANGED <<xvars, dvars, mvars, ivars, nReportOps>>

\* the response is sent: the worker is free again
ReportRespond(q) ==
    /\ adm[q].pc \in {"403", "200"}
    /\ adm' = [adm EXCEPT ![q] = IdleAdm]
    /\ UNCHANGED <<xvars, dvars, mvars, ivars, reports, nReportOps>>

(* ------------------------- GET /api/admin/stats ----------------------- *)
\* the body of the response; currentPartnerships is
\* activePartnerships.length / 2, given by its numerator (the number of
\* active users for whom storage.getActivePartnershipForUser answers a row)
\* and its denominator
stats ==
    LET activeUsers == {u \in Users : users[u].isActive}
        activePartnerships == {u \in activeUsers : ~NoActivePartnership(u)}
        pendingReports == {i \in 1..Len(reports) : reports[i].status = "pending"}
    IN [activeUsers |-> Cardinality(activeUsers),
        currentPartnerships |-> [num |-> Cardinality(activePartnerships), den |-> 2],
        pendingReports |-> Cardinality(pendingReports)]

(* ------------------------------- db.ts -------------------------------- *)
retryConfig == [maxRetries |-> 5]

\* what pool.query('SELECT 1 as test') can do: answer a row with test = 1,
\* answer something else, or reject
QueryOutcomes == {"test1", "unexpected", "error"}

\* no validateConnection call in progress; sawTest is a history field,
\* whether a validation query has answered test = 1
IdleValidation == [pc |-> "idle", attempt |-> 0, sawTest |-> FALSE]

\* validateConnection(): nothing to do once the flag is set, otherwise the
\* first attempt of validateDatabaseConnection
ValidateStart ==
    /\ vc.pc = "idle"
    /\ vc' = IF isConnectionValidated
             THEN [vc EXCEPT !.pc = "returned"]
             ELSE [vc EXCEPT !.pc = "query", !.attempt = 1]
    /\ UNCHANGED <<mvars, ivars, rvars, xvars, isConnectionValidated, wr>>

\* the answer of pool.query in validateDatabaseConnection, and what follows
\* it without a further await: the return of true, the next attempt, the
\* return of false after the last attempt, or the throw on the last
\* attempt; when validateDatabaseConnection returns, validateConnection sets
\* the flag
ValidateQuery(outcome) ==
    /\ vc.pc = "query"
    /\ LET isLastAttempt == vc.attempt = retryConfig.maxRetries
       IN CASE outcome = "test1" ->
                /\ vc' = [vc EXCEPT !.pc = "returned", !.sawTest = TRUE]
                /\ isConnectionValidated' = TRUE
            [] outcome = "unexpected" /\ ~isLastAttempt ->
                /\ vc' = [vc EXCEPT !.attempt = vc.attempt + 1]
                /\ UNCHANGED isConnectionValidated
            [] outcome = "unexpected" /\ isLastAttempt ->
                /\ vc' = [vc EXCEPT !.pc = "returned"]
                /\ isConnectionValidated' = TRUE
            [] outcome = "error" /\ ~isLastAttempt ->
                /\ vc' = [vc EXCEPT !.pc = "delay"]
                /\ UNCHANGED isConnectionValidated
            [] outcome = "error" /\ isLastAttempt ->
                /\ vc' = [vc EXCEPT !.pc = "threw"]
                /\ UNCHANGED isConnectionValidated
    /\ UNCHANGED <<mvars, ivars, rvars, xvars, wr>>

\* the timer of the retry delay fires: the next attempt
ValidateWake ==
    /\ vc.pc = "delay"
    /\ vc' = [vc EXCEPT !.pc = "query", !.attempt = vc.attempt + 1]
    /\ UNCHANGED <<mvars, ivars, rvars, xvars, isConnectionValidated, wr>>

\* the caller has the result of validateConnection
ValidateDone ==
    /\ vc.pc \in {"returned", "threw"}
    /\ vc' = [IdleValidation EXCEPT !.sawTest = vc.sawTest]
    /\ UNCHANGED <<mvars, ivars, rvars, xvars, isConnectionValidated, wr>>

isDbConnected == isConnectionValidated

\* what an invocation of the operation can do: resolve, reject with a
\* transient error, reject with another error
OperationOutcomes == {"ok", "transient", "fatal"}

\* the maxRetries arguments withRetry is tried with
RetryInputs == 0..MaxRetriesInput

\* no withRetry call in progress; outcomes is a history field, what the
\* invocations of the operation did, in order
IdleRetry ==
    [pc |-> "idle", maxRetries |-> 0, attempt |-> 0, outcomes |-> <<>>,
     thrown |-> NULL]

\* a catch block that rethrows only the errors that are not transient
rethrowsNonTransient(isTransientError, isLastAttempt) == ~isTransientError

\* if (!isTransientError || isLastAttempt) throw error
rethrows(isTransientError, isLastAttempt) == ~isTransientError \/ isLastAttempt

\* the head of the for loop at attempt: the next invocation, or the throw
\* after the loop
RetryLoop(rec, attempt) ==
    IF attempt <= rec.maxRetries
    THEN [rec EXCEPT !.pc = "call", !.attempt = attempt]
    ELSE [rec EXCEPT !.pc = "threw", !.attempt = attempt, !.thrown = "generic"]

\* withRetry(operation, operationName, maxRetries)
RetryStart(maxRetries) ==
    /\ wr.pc = "idle"
    /\ wr' = RetryLoop([IdleRetry EXCEPT !.maxRetries = maxRetries], 1)
    /\ UNCHANGED <<mvars, ivars, rvars, xvars, isConnectionValidated, vc>>

\* await operation() settles: the return of its result, or the catch block
RetryCall(outcome) ==
    /\ wr.pc = "call"
    /\ LET rec == [wr EXCEPT !.outcomes = Append(wr.outcomes, outcome)]
           isLastAttempt == wr.attempt = wr.maxRetries
           isTransientError == outcome = "transient"
       IN wr' = IF outcome = "ok"
                THEN [rec EXCEPT !.pc = "returned"]
                ELSE IF rethrows(isTransientError, isLastAttempt)
                     THEN [rec EXCEPT !.pc = "threw", !.thrown = outcome]
                     ELSE [rec EXCEPT !.pc = "delay"]
    /\ UNCHANGED <<mvars, ivars, rvars, xvars, isConnectionValidated, vc>>

\* the timer of the retry delay fires: attempt++
RetryWake ==
    /\ wr.pc = "delay"
    /\ wr' = RetryLoop(wr, wr.attempt + 1)
    /\ UNCHANGED <<mvars, ivars, rvars, xvars, isConnectionValidated, vc>>

\* the caller has the result of withRetry
RetryDone ==
    /\ wr.pc \in {"returned", "threw"}
    /\ wr' = IdleRetry
    /\ UNCHANGED <<mvars, ivars, rvars, xvars, isConnectionValidated, vc>>

(* --------------------------- specifications --------------------------- *)
\* no invite code, no registered account, no request in progress
InitLedger ==
    /\ inviteCodes = [c \in Codes |-> NoRow]
    /\ issue = {}
    /\ accounts = {}
    /\ reg = [r \in Regs |-> IdleReg]
    /\ now = 0
    /\ reports = <<>>
    /\ adm = [q \in AdminReqs |-> IdleAdm]
    /\ nReportOps = 0
    /\ exdel = NoRow
    /\ isConnectionValidated = FALSE
    /\ vc = IdleValidation
    /\ wr = IdleRetry

\* the populations the matching run is tried on: active users, the first two
\* male, the last one without a gender, the others of any initial gender
\* value; the first user is the seeded administrator
Populations ==
    {f \in [Users -> [gender : InitGenders, isActive : {TRUE}, isAdmin : BOOLEAN]] :
        /\ f[1].gender = "male" /\ f[2].gender = "male" /\ f[NUsers].gender = NULL
        /\ \A u \in Users : f[u].isAdmin <=> (u = 1)}

\* no partnership, no exclusion, no matching run in progress
InitTables ==
    /\ partnerships = <<>>
    /\ exclusions = <<>>
    /\ exreq = EmptyBag
    /\ run = [r \in Runs |-> IdleRun]
    /\ nRuns = 0
    /\ nEdits = 0
    /\ nUpdates = 0

Init ==
    /\ users \in Populations
    /\ InitTables
    /\ InitLedger

\* POST /api/exclusions while the table is empty and no other such request
\* is in progress
ExclusionCheckFirst(u, x) ==
    /\ Len(exclusions) + BagCardinality(exreq) = 0
    /\ ExclusionCheck(u, x)

Requests ==
    \/ \E u \in Users, g \in GenderInputs : UpdateGender(u, g)
    \/ \E u \in Users, a \in BOOLEAN : SetActive(u, a)
    \/ \E u \in Users, x \in Users : ExclusionCheckFirst(u, x)
    \/ \E u \in Users, x \in Users : ExclusionInsert(u, x)

RunSteps(r) ==
    \/ RunAvail(r)
    \/ RunShuffle(r)
    \/ RunExcl1(r)
    \/ RunExcl2(r)
    \/ RunCreate(r)
    \/ RunReturn(r)

\* the matching run, any number of invocations at a time, and every request
Next ==
    \/ \E r \in Runs : RunStart(r)
    \/ \E r \in Runs : RunSteps(r)
    \/ \E id \in 1..(NUsers * MaxRuns), s \in PartnershipStatuses : UpdatePartnership(id, s)

Spec == Init /\ [][Next]_vars

\* POST /api/admin/create-matches while no other invocation is in progress
RunStartSeq(r) ==
    /\ \A q \in Runs : run[q].pc = "idle"
    /\ RunStart(r)

\* matching runs one at a time and no partnership update, with the users'
\* profile edits and exclusion requests at any moment
NextSeq ==
    \/ \E r \in SeqRuns : RunStartSeq(r)
    \/ \E r \in SeqRuns : RunSteps(r)
    \/ Requests

SpecSeq == Init /\ [][NextSeq]_vars

\* matching runs one at a time with the users' profile edits at any moment
NextEdit ==
    \/ \E r \in SeqRuns : RunStartSeq(r)
    \/ \E r \in SeqRuns : RunSteps(r)
    \/ \E u \in Users, g \in GenderInputs : UpdateGender(u, g)
    \/ \E u \in Users, a \in BOOLEAN : SetActive(u, a)

SpecEdit == Init /\ [][NextEdit]_vars

\* the exclusions route: add requests, any number at a time, and delete
\* requests
NextExclusion ==
    \/ \E u \in Users, x \in Users : ExclusionCheck(u, x)
    \/ \E u \in Users, x \in Users : ExclusionInsert(u, x)
    \/ \E u \in Users, id \in 1..MaxExclusions : DeleteExclusion(u, id)

SpecExclusion == Init /\ [][NextExclusion]_vars

\* the exclusion tables the matching run is tried on: empty, or one row
ExclusionTables ==
    {<<>>} \cup {<<[userId |-> p[1], excludedUserId |-> p[2]]>> :
                    p \in {q \in Users \X Users : q[1] # q[2]}}

InitExcl ==
    /\ users \in Populations
    /\ partnerships = <<>>
    /\ exclusions \in ExclusionTables
    /\ exreq = EmptyBag
    /\ run = [r \in Runs |-> IdleRun]
    /\ nRuns = 0
    /\ nEdits = 0
    /\ nUpdates = 0
    /\ InitLedger

\* matching runs one at a time over a table of exclusions
NextExcl ==
    \/ \E r \in SeqRuns : RunStartSeq(r)
    \/ \E r \in SeqRuns : RunSteps(r)

SpecExcl == InitExcl /\ [][NextExcl]_vars

\* matching runs one at a time while the clock advances
NextExpiry ==
    \/ \E r \in SeqRuns : RunStartSeq(r)
    \/ \E r \in SeqRuns : RunSteps(r)
    \/ Tick

SpecExpiry == Init /\ [][NextExpiry]_vars

\* the database module: validateConnection and withRetry; a promise that is
\* awaited settles and a timer that is set fires
NextDb ==
    \/ ValidateStart
    \/ \E o \in QueryOutcomes : ValidateQuery(o)
    \/ ValidateWake
    \/ ValidateDone
    \/ \E m \in RetryInputs : RetryStart(m)
    \/ \E o \in OperationOutcomes : RetryCall(o)
    \/ RetryWake
    \/ RetryDone

SpecDb ==
    /\ Init
    /\ [][NextDb]_vars
    /\ WF_vars(\E o \in OperationOutcomes : RetryCall(o))
    /\ WF_vars(RetryWake)
    /\ WF_vars(\E o \in QueryOutcomes : ValidateQuery(o))
    /\ WF_vars(ValidateWake)

\* matching runs one at a time in which any insert of a partnership may fail
NextFault ==
    \/ \E r \in SeqRuns : RunStartSeq(r)
    \/ \E r \in SeqRuns : RunSteps(r)
    \/ \E r \in SeqRuns : RunCreateThrows(r)

SpecFault == Init /\ [][NextFault]_vars

\* POST /api/admin/invite-codes while the ledger is empty and no other such
\* request is in progress
IssueCheckFirst(code, maxUses, expiresAt) ==
    /\ \A c \in Codes : inviteCodes[c] = NoRow
    /\ issue = {}
    /\ IssueCheck(code, maxUses, expiresAt)

\* the invite ledger: issuing, deactivation, the clock and the registrations
NextInvite ==
    \/ \E c \in Codes, m \in MaxUsesInputs, e \in ExpiresInputs : IssueCheckFirst(c, m, e)
    \/ \E q \in issue : IssueInsert(q)
    \/ \E c \in Codes : Deactivate(c)
    \/ Tick
    \/ \E r \in Regs, k \in {"local", "oidc"}, a \in Idents, c \in Codes : RegLookup(r, k, a, c)
    \/ \E r \in Regs : RegVerify(r)
    \/ \E r \in Regs : RegCreate(r)
    \/ \E r \in Regs : RegConsumeRead(r)
    \/ \E r \in Regs : RegConsumeUpdate(r)
    \/ \E r \in Regs : RegConsumeThrows(r)

InitInvite ==
    /\ users = [u \in Users |-> [gender |-> "male", isActive |-> TRUE, isAdmin |-> (u = 1)]]
    /\ InitTables
    /\ InitLedger

SpecInvite == InitInvite /\ [][NextInvite]_vars

\* the invite ledger over the in-memory storage: issue requests, any number
\* at a time, and deactivation
NextIssueMem ==
    \/ \E c \in Codes, m \in MaxUsesInputs, e \in ExpiresInputs : IssueCheck(c, m, e)
    \/ \E q \in issue : IssueInsertMem(q)
    \/ \E c \in Codes : Deactivate(c)

SpecIssueMem == InitInvite /\ [][NextIssueMem]_vars

\* POST /api/reports while the table is empty
FileFirstReport(u, body) ==
    /\ reports = <<>>
    /\ FileReport(u, body)

\* the reports: filing, the update requests and the promotion of a user to
\* administrator
NextReport ==
    \/ \E u \in Users, body \in ReportBodies : FileFirstReport(u, body)
    \/ \E u \in Users : Bootstrap(u)
    \/ \E q \in AdminReqs, u \in Users, id \in 1..MaxReports, s \in ReportStatuses :
            ReportCheck(q, u, id, s)
    \/ \E q \in AdminReqs : ReportUpdate(q)
    \/ \E q \in AdminReqs : ReportRespond(q)

SpecReport == InitInvite /\ [][NextReport]_vars

\* the reports: any number of filings and the administrators' update requests
NextFiling ==
    \/ \E u \in Users, body \in ReportBodies : FileReport(u, body)
    \/ \E q \in AdminReqs, u \in Users, id \in 1..MaxReports, s \in ReportStatuses :
            ReportCheck(q, u, id, s)
    \/ \E q \in AdminReqs : ReportUpdate(q)
    \/ \E q \in AdminReqs : ReportRespond(q)

SpecFiling == InitInvite /\ [][NextFiling]_vars

(* ------------------------------ claims -------------------------------- *)
ActiveOf(u) ==
    {i \in 1..Len(partnerships) :
        /\ partnerships[i].status = "active"
        /\ (partnerships[i].user1Id = u \/ partnerships[i].user2Id = u)}

\* C1: with matching runs executed one at a time and no other partnership
\* write, no user id appears in two partnerships whose status is active.
C1_NoDoubleBookingSequential ==
    \A u \in Users : Cardinality(ActiveOf(u)) <= 1

\* two completed runs have each created a partnership that is still active
C1_Witness ==
    /\ \A r \in Runs : run[r].pc = "idle"
    /\ \E i, j \in 1..Len(partnerships) :
        /\ partnerships[i].run = 1 /\ partnerships[i].status = "active"
        /\ partnerships[j].run = 2 /\ partnerships[j].status = "active"

\* C2: under any interleaving of two matching runs, or of a run with a manual
\* partnership update, no two active partnerships share a participant.
C2_NoDoubleBookingConcurrent ==
    \A i, j \in 1..Len(partnerships) :
        (i < j /\ partnerships[i].status = "active" /\ partnerships[j].status = "active")
        => {partnerships[i].user1Id, partnerships[i].user2Id}
             \cap {partnerships[j].user1Id, partnerships[j].user2Id} = {}

\* C3: at the moment a matching run inserts a partnership, neither participant
\* has an exclusion record naming the other.
C3_NoExclusionAtInsert ==
    \A i \in 1..Len(partnerships) : ~partnerships[i].excludedAtInsert

\* C4: both participants of a partnership created by a matching run were
\* grouped under the same bucket key by that run.
C4_SameBucket ==
    \A i \in 1..Len(partnerships) :
        BucketKey(partnerships[i].gender1) = BucketKey(partnerships[i].gender2)

\* one run has created partnerships in two different buckets
C4_Witness ==
    \E i, j \in 1..Len(partnerships) :
        /\ partnerships[i].run = partnerships[j].run
        /\ BucketKey(partnerships[i].gender1) # BucketKey(partnerships[j].gender1)

\* C5: a user stored with 'prefer_not_to_say' is matched only with users also
\* stored with 'prefer_not_to_say'.
C5_FlexibleOnlyWithFlexible ==
    \A i \in 1..Len(partnerships) :
        (partnerships[i].gender1 = "prefer_not_to_say")
            <=> (partnerships[i].gender2 = "prefer_not_to_say")

\* C6: for every invite code 0 <= currentUses <= maxUses in every state, and
\* no step decreases currentUses.
C6_UsesBoundedAndMonotone ==
    [][\A c \in Codes :
        inviteCodes'[c] # NoRow =>
            /\ 0 <= inviteCodes'[c].currentUses
            /\ inviteCodes'[c].currentUses <= inviteCodes'[c].maxUses
            /\ (inviteCodes[c] # NoRow =>
                    inviteCodes'[c].currentUses >= inviteCodes[c].currentUses)]_vars

SucceededWith(c) == {r \in Regs : reg[r].outcome = "created" /\ reg[r].code = c}

\* C7: of the registrations that run concurrently on one invite code, no more
\* succeed than the code has uses: with one use remaining at most one succeeds.
C7_NoMoreSuccessesThanUses ==
    \A c \in Codes :
        inviteCodes[c] # NoRow => Cardinality(SucceededWith(c)) <= inviteCodes[c].maxUses

\* C8: once an invite code's isActive is false no step sets it back to true.
C8_DeactivationMonotone ==
    [][\A c \in Codes :
        (inviteCodes[c] # NoRow /\ ~inviteCodes[c].isActive) => ~inviteCodes'[c].isActive]_vars

\* C9: a step of Consume taken on a code that is at that moment deactivated,
\* expired or exhausted ends the attempt without success and leaves the
\* code's row unchanged.
C9_ConsumeRevalidates ==
    [][\A r \in Regs :
        (/\ reg[r].pc \in {"consume", "update"}
         /\ reg'[r] # reg[r]
         /\ verifyInvite(reg[r].code) # "valid")
        => /\ inviteCodes' = inviteCodes
           /\ reg'[r].pc = "done"
           /\ reg'[r].outcome # "created"]_vars

AccountsWith(c) == {a \in accounts : a.code = c}

\* C10: whenever no registration attempt is in progress, every code's
\* currentUses equals the number of accounts created with that code.
C10_UsesEqualAccounts ==
    (\A r \in Regs : reg[r].pc \in {"idle", "done"})
    => \A c \in Codes :
        inviteCodes[c] # NoRow => inviteCodes[c].currentUses = Cardinality(AccountsWith(c))

\* C11: every status change of a partnership goes from active to completed,
\* ended_early or cancelled; an update requested on a partnership in one of
\* these three statuses leaves it unchanged.
C11_PartnershipTransitions ==
    [][\A i \in 1..Len(partnerships) :
        partnerships'[i].status # partnerships[i].status
        => /\ partnerships[i].status = "active"
           /\ partnerships'[i].status \in {"completed", "ended_early", "cancelled"}]_vars

\* C12: every status change of a report is one of pending -> investigating,
\* pending -> dismissed, investigating -> resolved, investigating -> dismissed;
\* a request for any other transition leaves the status unchanged.
C12_ReportTransitions ==
    [][\A i \in 1..Len(reports) :
        reports'[i].status # reports[i].status
        => <<reports[i].status, reports'[i].status>> \in
             {<<"pending", "investigating">>, <<"pending", "dismissed">>,
              <<"investigating", "resolved">>, <<"investigating", "dismissed">>}]_vars

\* C13: no partnership is inserted while one of its two users holds a
\* partnership with status active.
C13_CreateRefusesConflict ==
    \A i \in 1..Len(partnerships) : ~partnerships[i].busyAtInsert

\* C14: Verify answers valid exactly when the code exists, isActive is true,
\* expiresAt is unset or strictly later than now, and currentUses < maxUses.
C14_VerifyValidExactly ==
    \A c \in Codes :
        (verifyInvite(c) = "valid")
        <=> /\ inviteCodes[c] # NoRow
            /\ inviteCodes[c].isActive
            /\ (inviteCodes[c].expiresAt = Never \/ inviteCodes[c].expiresAt > now)
            /\ inviteCodes[c].currentUses < inviteCodes[c].maxUses

\* C15: after the consumption that exhausts an active, unexpired code, Verify
\* refuses the code with the reason of exhaustion (maximum uses), not with
\* the reason of a deactivation.
C15_ExhaustedReason ==
    [][\A c \in Codes :
        (/\ inviteCodes[c] # NoRow
         /\ inviteCodes[c].isActive
         /\ inviteCodes'[c].currentUses > inviteCodes[c].currentUses
         /\ inviteCodes'[c].currentUses >= inviteCodes'[c].maxUses
         /\ (inviteCodes'[c].expiresAt = Never \/ now' <= inviteCodes'[c].expiresAt))
        => verifyInvite(c)' = "Invite code has reached maximum uses"]_vars

\* C16: an invite code whose currentUses has reached maxUses has isActive
\* false.
C16_ExhaustedIsInactive ==
    \A c \in Codes :
        (inviteCodes[c] # NoRow /\ inviteCodes[c].currentUses >= inviteCodes[c].maxUses)
        => ~inviteCodes[c].isActive

\* C17: when the insert of one pair's partnership fails and the run has a
\* further pair to try, in the same bucket or in a later one, the run goes on.
C17_FailureDoesNotAbort ==
    [][\A r \in Runs :
        (/\ run[r].pc = "create"
         /\ run'[r] # run[r]
         /\ partnerships' = partnerships
         /\ \/ run[r].i + 3 <= Len(run[r].shuffled)
            \/ \E b \in (run[r].b + 1)..Len(run[r].buckets) : Len(run[r].buckets[b]) >= 2)
        => run'[r].pc \notin {"done", "idle"}]_vars

\* C18: a step of a matching run leaves the user records, the exclusion
\* records, the invite codes, the reports and the partnerships that exist
\* unchanged: it only appends partnership rows.
C18_RunOnlyInserts ==
    [][run' # run =>
        /\ users' = users
        /\ exclusions' = exclusions
        /\ inviteCodes' = inviteCodes
        /\ reports' = reports
        /\ Len(partnerships') >= Len(partnerships)
        /\ SubSeq(partnerships', 1, Len(partnerships)) = partnerships]_vars

\* a run in progress has just inserted a partnership into a table that holds
\* a partnership of an earlier run, after a user record was edited
C18_Witness ==
    \E r \in Runs :
        /\ run[r].pc # "idle"
        /\ Len(partnerships) >= 2
        /\ partnerships[Len(partnerships)].run = run[r].n
        /\ partnerships[1].run < run[r].n
        /\ nEdits > 0

\* C19: a report's status changes only in the update step of a request whose
\* caller is an administrator; a request of a caller who is not one is
\* answered 403 and changes no report.
C19_OnlyAdminChangesReports ==
    [][/\ \A i \in 1..Len(reports) :
            reports'[i].status # reports[i].status
            => \E q \in AdminReqs :
                 /\ adm[q].pc = "next" /\ adm'[q].pc = "200"
                 /\ adm[q].id = i /\ adm[q].status = reports'[i].status
                 /\ users[adm[q].by].isAdmin
       /\ \A q \in AdminReqs :
            (adm[q].pc = "idle" /\ adm'[q].pc # "idle" /\ ~users[adm'[q].by].isAdmin)
            => (adm'[q].pc = "403" /\ reports' = reports)
       /\ Len(reports') >= Len(reports)]_vars

\* an administrator's request has changed a report and a later request of a
\* user who is no administrator has been answered 403
C19_Witness ==
    \E q \in AdminReqs :
        /\ adm[q].pc = "403"
        /\ ~users[adm[q].by].isAdmin
        /\ \E i \in 1..Len(reports) : reports[i].status # "pending"

\* C20: a matching run keeps as active only users whose isActive is true when
\* it reads the users, keeps as available only active users who hold no active
\* partnership when it asks for theirs, and creates partnerships only between
\* available users.
C20_OnlyEligibleMatched ==
    [][\A r \in Runs :
        /\ (run[r].pc = "idle" /\ run'[r].pc # "idle")
            => \A u \in Range(run'[r].active) : users[u].isActive
        /\ run'[r].pc # "idle"
            => \A u \in Range(run'[r].avail) \ Range(run[r].avail) :
                 /\ u \in Range(run[r].active)
                 /\ ActiveOf(u) = {}
        /\ (Len(partnerships') > Len(partnerships) /\ run'[r] # run[r])
            => {partnerships'[Len(partnerships')].user1Id,
                partnerships'[Len(partnerships')].user2Id} \subseteq Range(run[r].avail)]_vars

\* a run that left out users in an active partnership has just created a
\* partnership
C20_Witness ==
    \E r \in Runs :
        /\ run[r].pc # "idle"
        /\ Len(partnerships) > 0
        /\ partnerships[Len(partnerships)].run = run[r].n
        /\ Len(run[r].avail) < Len(run[r].active)

\* the partnership rows the invocation with number n has created
RunRows(n) == {i \in 1..Len(partnerships) : partnerships[i].run = n}

\* C21: when a matching run with no exclusions among the users returns, each
\* of its buckets of n users has yielded n \div 2 active partnerships between
\* users of the bucket, with pairwise disjoint participants, and n % 2 users
\* of the bucket are unmatched.
C21_BucketYieldsHalf ==
    \A r \in Runs :
        run[r].pc = "done" =>
        \A b \in 1..Len(run[r].buckets) :
            LET bucket == Range(run[r].buckets[b])
                rows == {i \in RunRows(run[r].n) :
                            {partnerships[i].user1Id, partnerships[i].user2Id}
                                \cap bucket # {}}
                matched == UNION {{partnerships[i].user1Id, partnerships[i].user2Id} :
                                    i \in rows}
            IN /\ Cardinality(rows) = Cardinality(bucket) \div 2
               /\ \A i \in rows :
                    /\ partnerships[i].status = "active"
                    /\ {partnerships[i].user1Id, partnerships[i].user2Id} \subseteq bucket
               /\ Cardinality(matched) = 2 * Cardinality(rows)
               /\ Cardinality(bucket \ matched) = Cardinality(bucket) % 2

\* a run has returned that had a bucket of three users and a bucket of one
C21_Witness ==
    \E r \in Runs :
        /\ run[r].pc = "done"
        /\ \E b \in 1..Len(run[r].buckets) : Len(run[r].buckets[b]) = 3
        /\ \E b \in 1..Len(run[r].buckets) : Len(run[r].buckets[b]) = 1

\* C22: the users of a pair that an invocation rejected for an exclusion are
\* in no partnership that invocation created, and when a bucket holds exactly
\* two users of whom one excludes the other the finished invocation has
\* created no partnership with either
C22_RejectedStayUnmatched ==
    \A r \in Runs :
        /\ \A u \in run[r].rejected : \A i \in RunRows(run[r].n) :
                u \notin {partnerships[i].user1Id, partnerships[i].user2Id}
        /\ run[r].pc = "done" =>
            \A b \in 1..Len(run[r].buckets) :
                LET bucket == run[r].buckets[b]
                IN (/\ Len(bucket) = 2
                    /\ (isUserExcluded(bucket[1], bucket[2])
                            \/ isUserExcluded(bucket[2], bucket[1])))
                   => \A i \in RunRows(run[r].n) :
                        {partnerships[i].user1Id, partnerships[i].user2Id}
                            \cap Range(bucket) = {}

\* a finished invocation that rejected the pair of a bucket of two and
\* created a partnership in another bucket
C22_Witness ==
    \E r \in Runs :
        /\ run[r].pc = "done"
        /\ run[r].rejected # {}
        /\ \E b \in 1..Len(run[r].buckets) :
                Range(run[r].buckets[b]) = run[r].rejected
        /\ RunRows(run[r].n) # {}

\* C23: a step that adds a report adds one report with status pending and
\* leaves every report the table held as it was
C23_FiledReportIsPending ==
    [][Len(reports') > Len(reports)
        => /\ Len(reports') = Len(reports) + 1
           /\ reports'[Len(reports')].status = "pending"
           /\ \A i \in 1..Len(reports) : reports'[i] = reports[i]]_vars

\* a second report has been filed after the first one was taken up
C23_Witness ==
    /\ Len(reports) = 2
    /\ reports[1].status # "pending"
    /\ reports[2].status = "pending"

\* C24: an exclusion row leaves the table only by a delete request of its
\* owner, and a row that stays is never modified: every step either leaves
\* the table as it was, or appends a row, or is a delete request of the
\* owner of the one row it removes.
C24_OnlyOwnerDeletes ==
    [][\/ exclusions' = exclusions
       \/ /\ Len(exclusions') = Len(exclusions) + 1
          /\ SubSeq(exclusions', 1, Len(exclusions)) = exclusions
       \/ /\ exdel'.exists
          /\ exdel'.by = exdel'.owner
          /\ \E id \in 1..Len(exclusions) :
                /\ exclusions[id].userId = exdel'.owner
                /\ exclusions' = removeExclusion(id)]_vars

\* C26: no two rows of the exclusions table have the same owner and the
\* same excluded user.
C26_OneExclusionPerPair ==
    \A i, j \in 1..Len(exclusions) :
        (/\ exclusions[i].userId = exclusions[j].userId
         /\ exclusions[i].excludedUserId = exclusions[j].excludedUserId) => i = j

\* C25: a step of an issue request leaves every row the ledger holds as it
\* was: issuing adds rows and neither replaces a row nor resets its usage
\* state (the ledger is keyed by code, so no two rows share a code).
C25_IssueNeverOverwrites ==
    [][issue' # issue =>
        \A c \in Codes : inviteCodes[c] # NoRow => inviteCodes'[c] = inviteCodes[c]]_vars

\* C27: the statistics answer the number of active users, the number of
\* partnerships with status active and the number of pending reports.
C27_StatsCounts ==
    /\ stats.activeUsers = Cardinality({u \in Users : users[u].isActive})
    /\ stats.currentPartnerships.num =
            stats.currentPartnerships.den *
                Cardinality({i \in 1..Len(partnerships) : partnerships[i].status = "active"})
    /\ stats.pendingReports =
            Cardinality({i \in 1..Len(reports) : reports[i].status = "pending"})

\* C28: neither a step of a matching run nor the passing of time changes the
\* status of a partnership, and a partnership a run inserts shares no user
\* with a partnership whose status is active, whether or not the endDate of
\* that partnership is before the currentDate of the run.
C28_ExpiredStillIneligible ==
    [][/\ \A i \in 1..Len(partnerships) :
            partnerships'[i].status = partnerships[i].status
       /\ Len(partnerships') > Len(partnerships) =>
            LET new == partnerships'[Len(partnerships')]
            IN \A i \in 1..Len(partnerships) :
                partnerships[i].status = "active" =>
                    {partnerships[i].user1Id, partnerships[i].user2Id}
                        \cap {new.user1Id, new.user2Id} = {}]_vars

\* a matching run that started after the endDate of an active partnership
\* has finished, and it left the two users of that partnership out of the
\* available users
C28_Witness ==
    \E r \in Runs, i \in 1..Len(partnerships) :
        /\ run[r].pc = "done"
        /\ partnerships[i].status = "active"
        /\ partnerships[i].endDate < run[r].currentDate
        /\ {partnerships[i].user1Id, partnerships[i].user2Id} \subseteq Range(run[r].active)
        /\ {partnerships[i].user1Id, partnerships[i].user2Id} \cap Range(run[r].avail) = {}

\* C29: isDbConnected() answers true only if a validation query has answered
\* the row with test = 1.
C29_ConnectedOnlyAfterTest == isDbConnected => vc.sawTest

\* what C30 says of a withRetry call at every moment: the operation has been
\* invoked at most maxRetries times and every invocation but the last one
\* failed with a transient error; a call that returned did so on a
\* successful invocation; a call that threw threw the error of its last
\* invocation, either a non-transient one or the transient one of invocation
\* maxRetries (with no invocation at all, maxRetries below one, it threw the
\* error after the loop)
RetryInvocations ==
    /\ Len(wr.outcomes) <= wr.maxRetries
    /\ \A k \in 1..(Len(wr.outcomes) - 1) : wr.outcomes[k] = "transient"
    /\ wr.pc = "returned" =>
        /\ wr.outcomes # <<>>
        /\ wr.outcomes[Len(wr.outcomes)] = "ok"
    /\ wr.pc = "threw" =>
        IF wr.maxRetries < 1
        THEN wr.outcomes = <<>> /\ wr.thrown = "generic"
        ELSE /\ wr.outcomes # <<>>
             /\ wr.thrown = wr.outcomes[Len(wr.outcomes)]
             /\ \/ wr.thrown = "fatal"
                \/ wr.thrown = "transient" /\ Len(wr.outcomes) = wr.maxRetries
    /\ wr.pc \in {"call", "delay"} =>
        \A k \in 1..Len(wr.outcomes) : wr.outcomes[k] = "transient"

\* C30: withRetry invokes the operation at most maxRetries times, returns on
\* the first success, rethrows a non-transient error at once and the last
\* error after maxRetries transient failures, and every call ends.
C30_WithRetry ==
    /\ []RetryInvocations
    /\ (wr.pc \in {"call", "delay"}) ~> (wr.pc \in {"returned", "threw"})

\* a call has thrown the transient error of its last permitted invocation
\* after more than one invocation
C30_Witness ==
    /\ wr.pc = "threw"
    /\ wr.thrown = "transient"
    /\ Len(wr.outcomes) = wr.maxRetries
    /\ wr.maxRetries >= 2

====
